---- MODULE Spec2Model ----
(***************************************************************************)
(* Model of the Drone build comparison tool: the window filter             *)
(* (src/main.rs filter_build), the paginated retrieval                     *)
(* (src/drone.rs DroneBuildsPaginator) and the commit-keyed correlation    *)
(* map built by src/main.rs drone_build_map.                               *)
(*                                                                         *)
(* Two specifications share the variables:                                 *)
(*   SpecFilter  one call of filter_build on inputs drawn from bounded     *)
(*               sets (every event, status, branch pair and mode);         *)
(*   Spec        a whole run of drone_build_map against two backends that  *)
(*               hold finitely many builds.                                *)
(***************************************************************************)
EXTENDS Integers, Sequences, FiniteSets

(***************************************************************************)
(* Bounds of the model.                                                    *)
(***************************************************************************)
\* latest epoch second of a timestamp or window bound
MaxTime == 2
\* timestamps are i64: the earliest epoch second drawn is -MaxNeg
MaxNeg == 1
\* total number of builds the two backends hold in a run
MaxBuilds == 3
\* number of summaries a backend puts on one full page
PageSize == 2

Times == (0 - MaxNeg)..MaxTime
\* values drawn for the two timestamps filter_build does not read
AltTimes == {0, MaxTime}

(***************************************************************************)
(* Data model (src/drone.rs).                                              *)
(***************************************************************************)
DroneStatus ==
    {"Success", "Failure", "Killed", "Error", "Running", "Skipped", "Pending", "Other"}

DroneEvent == {"PullRequest", "Push", "Tag", "Other"}

Branches == {"develop", "main"}

GitShas == {"a", "b"}

DroneBuildTimestamps == [started : Times, finished : Times, created : Times, updated : Times]

\* The fields of a build summary the program reads.
DroneBuildListItem(number, status, event, source, target, git_sha, timestamps) ==
    [number |-> number, status |-> status, event |-> event, source |-> source,
     target |-> target, git_metadata |-> [git_sha |-> git_sha],
     timestamps |-> timestamps]

\* "no summary": the loop variable before the first iteration, and the
\* Option::None of Iterator::next
NoItem == DroneBuildListItem(0, "Other", "Other", "", "", "", [started |-> 0, finished |-> 0, created |-> 0, updated |-> 0])

VARIABLES
    pc,                     \* position of the program
    window_start,           \* main: window bound closer to now
    window_end,             \* main: window bound further in the past
    develop,                \* Cli.develop
    builds,                 \* builds[b]: the build list backend b holds, newest first
    paginator,              \* the live DroneBuildsPaginator: page, drone, cached
    drone_build_list_item,  \* the summary handed to filter_build last
    filter_state,           \* the FilterState filter_build returned last
    git_sha_to_builds,      \* drone_build_map: commit id -> <<Gen1 details, Gen2 details>>
    page_requests,          \* history: page fetches issued, [drone, page]
    build_info_requests,    \* history: detail fetches issued, [drone, number]
    yielded,                \* history: yielded[b], the summaries next() returned for backend b
    pending,                \* write_csv_aux: the commit ids the for loop has not visited yet
    rows,                   \* the rows serialized to the csv writer, in order
    drone_build_info,       \* the build handed to wallet_platform_system_status
    system_status,          \* what wallet_platform_system_status returned
    pages,                  \* the argument of the last skip_pages_mut
    lookup                  \* the last get_stage / get_step call: op, name, stage, found

report_vars == <<pending, rows>>

status_vars == <<drone_build_info, system_status, lookup>>

vars == <<pc, window_start, window_end, develop, builds, paginator,
          drone_build_list_item, filter_state, git_sha_to_builds,
          page_requests, build_info_requests, yielded, pending, rows,
          drone_build_info, system_status, pages, lookup>>

Clients == {1, 2}

\* "no build": drone_build_info where wallet_platform_system_status is not called
NoBuildInfo == [build_info |-> NoItem, stages |-> <<>>]

\* lookup where neither get_stage nor get_step has been called
NoLookup == [op |-> "NotCalled", name |-> <<>>, stage |-> 0, found |-> <<>>]

\* the values of the variables of write_csv_aux, wallet_platform_system_status,
\* skip_pages_mut and the lookups before any of them has run
ReportIdle ==
    /\ lookup = NoLookup
    /\ pending = {}
    /\ rows = <<>>
    /\ drone_build_info = NoBuildInfo
    /\ system_status = "NotCalled"
    /\ pages = 0

(***************************************************************************)
(* The window filter (src/main.rs).                                        *)
(***************************************************************************)
\* UNIX_EPOCH + Duration::from_secs(timestamp.unsigned_abs()), as seconds
\* since the epoch: a negative timestamp is mapped to its absolute value.
timestamp_to_system_time(timestamp) ==
    IF timestamp < 0 THEN 0 - timestamp ELSE timestamp

\* first test of filter_build: created and finished before window_end
CreatedAndFinishedOutside(item, we) ==
    /\ timestamp_to_system_time(item.timestamps.finished) < we
    /\ timestamp_to_system_time(item.timestamps.created) < we

\* second test of filter_build: created before window_end or finished after
\* window_start
CreatedBeforeOrFinishedAfter(item, ws, we) ==
    \/ timestamp_to_system_time(item.timestamps.finished) > ws
    \/ timestamp_to_system_time(item.timestamps.created) < we

\* EventMismatch with the branch tests of develop mode dropped
EventMismatch_any_push(item, dev) ==
    IF dev THEN item.event # "Push" ELSE item.event # "PullRequest"

\* the event test of the active mode
EventMismatch(item, dev) ==
    IF dev
    THEN ~(item.event = "Push" /\ item.source = "develop" /\ item.target = "develop")
    ELSE item.event # "PullRequest"

\* filter_build with the second test reading started instead of finished
filter_build_reads_started(item, ws, we, dev) ==
    IF CreatedAndFinishedOutside(item, we) THEN "Break"
    ELSE IF \/ timestamp_to_system_time(item.timestamps.started) > ws
            \/ timestamp_to_system_time(item.timestamps.created) < we THEN "Continue"
    ELSE IF EventMismatch(item, dev) THEN "Continue"
    ELSE IF item.status = "Running" THEN "Continue"
    ELSE "DroneBuildInfo"

\* The variant of FilterState filter_build returns; for "DroneBuildInfo" the
\* caller of this operator issues drone_client.get_build_info(item.number).
filter_build(item, ws, we, dev) ==
    IF CreatedAndFinishedOutside(item, we) THEN "Break"
    ELSE IF CreatedBeforeOrFinishedAfter(item, ws, we) THEN "Continue"
    ELSE IF EventMismatch(item, dev) THEN "Continue"
    ELSE IF item.status = "Running" THEN "Continue"
    ELSE "DroneBuildInfo"

(***************************************************************************)
(* SpecFilter: filter_build applied once to drawn inputs.                  *)
(***************************************************************************)
FilterInputs ==
    {DroneBuildListItem(1, st, ev, src, tgt, "a",
                        [started |-> s, finished |-> f, created |-> c, updated |-> u]) :
        st \in DroneStatus, ev \in DroneEvent, src \in Branches, tgt \in Branches,
        s \in AltTimes, f \in Times, c \in Times, u \in AltTimes}

\* get_window_bounds: window_end = window_start - duration, duration >= 0
Windows == {w \in Times \X Times : w[2] <= w[1]}

InitFilter ==
    /\ pc = "filter_build"
    /\ \E w \in Windows : window_start = w[1] /\ window_end = w[2]
    /\ develop \in BOOLEAN
    /\ drone_build_list_item \in FilterInputs
    /\ filter_state = "NotCalled"
    /\ builds = [b \in Clients |-> IF b = 1 THEN <<drone_build_list_item>> ELSE <<>>]
    /\ paginator = [page |-> 1, drone |-> 1, cached |-> <<>>]
    /\ git_sha_to_builds = <<>>
    /\ page_requests = <<>>
    /\ build_info_requests = <<>>
    /\ yielded = [b \in Clients |-> <<>>]
    /\ ReportIdle

\* one call filter_build(&item, &window_start, &window_end, &drone1_client, develop)
FilterBuildCall ==
    /\ pc = "filter_build"
    /\ filter_state' = filter_build(drone_build_list_item, window_start, window_end, develop)
    /\ build_info_requests' =
          IF filter_state' = "DroneBuildInfo"
          THEN Append(build_info_requests, [drone |-> 1, number |-> drone_build_list_item.number])
          ELSE build_info_requests
    /\ pc' = "filter_build_returned"
    /\ UNCHANGED <<window_start, window_end, develop, builds, paginator,
                   drone_build_list_item, git_sha_to_builds, page_requests, yielded>>
    /\ UNCHANGED <<report_vars, status_vars, pages>>

NextFilter == FilterBuildCall

SpecFilter == InitFilter /\ [][NextFilter]_vars

(***************************************************************************)
(* Paginated retrieval (src/drone.rs).                                     *)
(***************************************************************************)
Min(a, b) == IF a < b THEN a ELSE b

\* The response of the list endpoint of backend b for ?page=page (1-based):
\* the backend cuts its build list into pages of PageSize and answers with an
\* empty list beyond the last build.
get_bgms_build_list_with_page(b, page) ==
    SubSeq(builds[b], (page - 1) * PageSize + 1, Min(page * PageSize, Len(builds[b])))

get_builds_paginated(b) == [page |-> 1, drone |-> b, cached |-> <<>>]

\* next fetching the following page while one entry is still buffered
next_prefetch(p) ==
    LET fetch == Len(p.cached) <= 1
        cached == IF fetch THEN p.cached \o get_bgms_build_list_with_page(p.drone, p.page)
                           ELSE p.cached
        page == IF fetch THEN p.page + 1 ELSE p.page
    IN  [fetched |-> fetch,
         fetched_page |-> p.page,
         some |-> cached # <<>>,
         item |-> IF cached = <<>> THEN NoItem ELSE Head(cached),
         paginator |-> [page |-> page, drone |-> p.drone,
                        cached |-> IF cached = <<>> THEN <<>> ELSE Tail(cached)]]

\* next taking a page shorter than PageSize for the end of the list
next_short_page_ends(p) ==
    LET fetch == p.cached = <<>>
        fetched == get_bgms_build_list_with_page(p.drone, p.page)
        cached == IF fetch
                  THEN (IF Len(fetched) < PageSize THEN <<>> ELSE fetched)
                  ELSE p.cached
        page == IF fetch THEN p.page + 1 ELSE p.page
    IN  [fetched |-> fetch,
         fetched_page |-> p.page,
         some |-> cached # <<>>,
         item |-> IF cached = <<>> THEN NoItem ELSE Head(cached),
         paginator |-> [page |-> page, drone |-> p.drone,
                        cached |-> IF cached = <<>> THEN <<>> ELSE Tail(cached)]]

\* Iterator::next of DroneBuildsPaginator on paginator p: the paginator after
\* the call, whether a page was fetched, and the Option returned (some, item).
next(p) ==
    LET fetch == p.cached = <<>>
        cached == IF fetch THEN p.cached \o get_bgms_build_list_with_page(p.drone, p.page)
                           ELSE p.cached
        page == IF fetch THEN p.page + 1 ELSE p.page
    IN  [fetched |-> fetch,
         fetched_page |-> p.page,
         some |-> cached # <<>>,
         item |-> IF cached = <<>> THEN NoItem ELSE Head(cached),
         paginator |-> [page |-> page, drone |-> p.drone,
                        cached |-> IF cached = <<>> THEN <<>> ELSE Tail(cached)]]

(***************************************************************************)
(* Stages and steps (src/drone.rs).  A name is the sequence of its         *)
(* hyphen-separated parts: "wallet-platform-api" is                        *)
(* <<"wallet", "platform", "api">> and "wallet-platform-" is               *)
(* <<"wallet", "platform", "">>.  An Option is a sequence of length 0 or 1.*)
(***************************************************************************)
None == <<>>
Some(x) == <<x>>

BuildPullRequest == <<"build", "pull", "request">>
RunWalletPlatformUnitTests == <<"run", "wallet", "platform", "unit", "tests">>
AwaitWalletPlatformTestStatus == <<"await", "wallet", "platform", "test", "status">>
WalletPlatformApi == <<"wallet", "platform", "api">>
WalletPlatform == <<"wallet", "platform">>

Drone1Step(name, status, started, stopped) ==
    [variant |-> "Drone1Step", name |-> name, status |-> status,
     started |-> started, stopped |-> stopped]

Drone2Step(name, status, started, stopped) ==
    [variant |-> "Drone2Step",
     drone_step |-> [name |-> name, status |-> status,
                     started |-> started, stopped |-> stopped]]

Drone1Stage(name, status, steps) ==
    [variant |-> "Drone1Stage", name |-> name, status |-> status, steps |-> steps]

Drone2Stage(name, status, steps) ==
    [variant |-> "Drone2Stage",
     drone_stage |-> [name |-> name, status |-> status, steps |-> steps]]

\* Regex ^wallet-platform-.* : the name starts with "wallet-platform-"
re_is_match(name) ==
    Len(name) >= 3 /\ name[1] = "wallet" /\ name[2] = "platform"

\* the closure of the fold: the accumulator after one more stage status
fold_step_last_wins(status, stage_status) ==
    IF stage_status \in {"Success", "Skipped"} THEN "Success" ELSE "Failure"

fold_step(status, stage_status) ==
    IF status = "Failure" THEN "Failure"
    ELSE IF status = "Success"
         THEN (IF stage_status \in {"Success", "Skipped"} THEN "Success" ELSE "Failure")
         ELSE "panic"

RECURSIVE fold(_, _)
\* Iterator::fold over the Drone2Stage stages left, filtered by the regex
fold(status, stages) ==
    IF stages = <<>> THEN status
    ELSE IF re_is_match(Head(stages).drone_stage.name)
         THEN fold(fold_step(status, Head(stages).drone_stage.status), Tail(stages))
         ELSE fold(status, Tail(stages))

\* wallet_platform_system_status without the unwrap of the first stage
wallet_platform_system_status_folds_empty(info) ==
    IF \E i \in 1..Len(info.stages) : info.stages[i].variant # "Drone2Stage"
    THEN "panic"
    ELSE fold("Success", info.stages)

\* wallet_platform_system_status with Drone1Stage entries after the first
\* one left out of the fold instead of panicking
wallet_platform_system_status_checks_first(info) ==
    IF info.stages = <<>> THEN "panic"
    ELSE IF Head(info.stages).variant = "Drone1Stage" THEN "panic"
    ELSE LET IsDrone2(stage) == stage.variant = "Drone2Stage"
         IN  fold("Success", SelectSeq(info.stages, IsDrone2))

\* The DroneStatus returned, or "panic": for the unwrap of the first stage of
\* an empty list, for a Drone1Stage first stage, and for a Drone1Stage met by
\* the map closure while the fold drains the iterator.
wallet_platform_system_status(info) ==
    IF info.stages = <<>> THEN "panic"
    ELSE IF Head(info.stages).variant = "Drone1Stage" THEN "panic"
    ELSE IF \E i \in 1..Len(info.stages) : info.stages[i].variant # "Drone2Stage"
         THEN "panic"
    ELSE fold("Success", info.stages)

(***************************************************************************)
(* SpecStatus: wallet_platform_system_status applied once to a drawn build.*)
(***************************************************************************)
\* longest stage list drawn
MaxStages == 3

StageStatuses == {"Success", "Skipped", "Failure", "Running"}

StageNames == {WalletPlatformApi, WalletPlatform, BuildPullRequest}

StatusStages ==
    {Drone1Stage(n, st, <<>>) : n \in StageNames, st \in StageStatuses}
    \cup {Drone2Stage(n, st, <<>>) : n \in StageNames, st \in StageStatuses}

InitStatus ==
    /\ pc = "wallet_platform_system_status"
    /\ \E n \in 0..MaxStages : \E stages \in [1..n -> StatusStages] :
          drone_build_info = [build_info |-> [NoItem EXCEPT !.number = 1], stages |-> stages]
    /\ system_status = "NotCalled"
    /\ window_start = 0
    /\ window_end = 0
    /\ develop = FALSE
    /\ builds = [b \in Clients |-> <<>>]
    /\ paginator = [page |-> 0, drone |-> 0, cached |-> <<>>]
    /\ drone_build_list_item = NoItem
    /\ filter_state = "NotCalled"
    /\ git_sha_to_builds = <<>>
    /\ page_requests = <<>>
    /\ build_info_requests = <<>>
    /\ yielded = [b \in Clients |-> <<>>]
    /\ pending = {}
    /\ rows = <<>>
    /\ pages = 0
    /\ lookup = NoLookup

\* one call wallet_platform_system_status(&drone_build_info)
SystemStatusCall ==
    /\ pc = "wallet_platform_system_status"
    /\ system_status' = wallet_platform_system_status(drone_build_info)
    /\ pc' = IF system_status' = "panic" THEN "panicked" ELSE "system_status_returned"
    /\ UNCHANGED <<window_start, window_end, develop, builds, paginator,
                   drone_build_list_item, filter_state, git_sha_to_builds,
                   page_requests, build_info_requests, yielded, report_vars,
                   drone_build_info, pages, lookup>>

NextStatus == SystemStatusCall

SpecStatus == InitStatus /\ [][NextStatus]_vars

(***************************************************************************)
(* Metrics engine (src/csv.rs) and the lookups it uses (src/drone.rs).     *)
(***************************************************************************)
\* 60 * 3
ThreeMinutes == 180

get_stage_last_match(info, stage_name) ==
    LET Named(stage) == IF stage.variant = "Drone1Stage"
                        THEN stage_name = stage.name
                        ELSE stage_name = stage.drone_stage.name
        hits == SelectSeq(info.stages, Named)
    IN  IF hits = <<>> THEN None ELSE Some(hits[Len(hits)])

\* DroneBuildInfo::get_stage: the first stage with the name, as an Option
get_stage(info, stage_name) ==
    LET Named(stage) == IF stage.variant = "Drone1Stage"
                        THEN stage_name = stage.name
                        ELSE stage_name = stage.drone_stage.name
        hits == SelectSeq(info.stages, Named)
    IN  IF hits = <<>> THEN None ELSE Some(Head(hits))

\* DroneStage::get_step: the first step with the name, as an Option
get_step(stage, step_name) ==
    LET drone_steps == IF stage.variant = "Drone1Stage"
                       THEN stage.steps ELSE stage.drone_stage.steps
        Named(step) == IF step.variant = "Drone1Step"
                       THEN step.name = step_name
                       ELSE step.drone_step.name = step_name
        hits == SelectSeq(drone_steps, Named)
    IN  IF hits = <<>> THEN None ELSE Some(Head(hits))

get_status(step) ==
    IF step.variant = "Drone1Step" THEN step.status ELSE step.drone_step.status

get_started_timestamp_or_default(step) ==
    LET started == IF step.variant = "Drone1Step" THEN step.started
                   ELSE step.drone_step.started
    IN  IF started = None THEN Some(0) ELSE started

\* the Option that get_started_timestamp unwraps
get_started_timestamp(step) ==
    IF step.variant = "Drone1Step" THEN step.started ELSE step.drone_step.started

\* the Option that get_stopped_timestamp unwraps
get_stopped_timestamp(step) ==
    IF step.variant = "Drone1Step" THEN step.stopped ELSE step.drone_step.stopped

\* DroneStep::elapsed_time, both timestamps present
elapsed_time(step) == get_stopped_timestamp(step)[1] - get_started_timestamp(step)[1]

RECURSIVE insert_by_number(_, _)
\* x put into the sorted sequence s behind every build with a number <= its own
insert_by_number(s, x) ==
    IF s = <<>> THEN <<x>>
    ELSE IF Head(s).build_info.number <= x.build_info.number
         THEN <<Head(s)>> \o insert_by_number(Tail(s), x)
         ELSE <<x>> \o s

RECURSIVE sort_by_number(_)
\* Vec::sort_by(|a, b| a.build_info.number.cmp(&b.build_info.number)): stable
sort_by_number(s) ==
    IF s = <<>> THEN <<>>
    ELSE insert_by_number(sort_by_number(SubSeq(s, 1, Len(s) - 1)), s[Len(s)])

\* the build write_csv_aux takes from one side of a bucket: builds[0] after
\* the sort
representative_first_pushed(drone_builds) == drone_builds[1]

representative(drone_builds) == sort_by_number(drone_builds)[1]

NoRow ==
    [git_sha |-> "", drone1_build_number |-> 0, drone2_build_number |-> 0,
     drone1_unit_test_status |-> "Other", drone1_await_test_status |-> "Other",
     drone2_system_status |-> "Other", drone1_unit_test_elapsed_time |-> 0,
     drone2_total_elapsed_time |-> 0,
     await_within_three_minutes_of_unit_test_start |-> FALSE,
     delta_await_complete_to_unit_test_start |-> 0]

Continue == [kind |-> "continue", row |-> NoRow]
Panic == [kind |-> "panic", row |-> NoRow]

within_three_minutes_inclusive(delta) == delta <= ThreeMinutes

\* delta_await_complete_to_unit_test_start < three_minutes
within_three_minutes(delta) == delta < ThreeMinutes

\* the Row built from the two representatives and the two steps, all
\* timestamps present and the system status computed (pr_number and pr_url,
\* which are copied from the links, are left out)
Record(git_sha, drone1_build, drone2_build, unit_test_step, await_test_step, status) ==
    LET delta == get_stopped_timestamp(await_test_step)[1]
                 - get_started_timestamp(unit_test_step)[1]
    IN  [git_sha |-> git_sha,
         drone1_build_number |-> drone1_build.build_info.number,
         drone2_build_number |-> drone2_build.build_info.number,
         drone1_unit_test_status |-> get_status(unit_test_step),
         drone1_await_test_status |-> get_status(await_test_step),
         drone2_system_status |-> status,
         drone1_unit_test_elapsed_time |-> elapsed_time(unit_test_step),
         drone2_total_elapsed_time |->
             get_stopped_timestamp(await_test_step)[1]
             - drone2_build.build_info.timestamps.started,
         await_within_three_minutes_of_unit_test_start |-> within_three_minutes(delta),
         delta_await_complete_to_unit_test_start |-> delta]

AfterUnitTestStep_keeps_skipped(git_sha, drone1_build, drone2_build, stage, unit_test_step) ==
    LET await_opt == get_step(stage, AwaitWalletPlatformTestStatus)
    IN  IF await_opt = None THEN Continue
        ELSE IF \/ wallet_platform_system_status(drone2_build) = "panic"
                \/ get_stopped_timestamp(unit_test_step) = None
                \/ get_started_timestamp(unit_test_step) = None
                \/ get_stopped_timestamp(await_opt[1]) = None
             THEN Panic
        ELSE [kind |-> "row",
              row |-> Record(git_sha, drone1_build, drone2_build, unit_test_step,
                             await_opt[1], wallet_platform_system_status(drone2_build))]

\* the part of the loop body of write_csv_aux behind the lookup of the
\* unit-test step
AfterUnitTestStep(git_sha, drone1_build, drone2_build, stage, unit_test_step) ==
    IF get_status(unit_test_step) = "Skipped" THEN Continue
    ELSE LET await_opt == get_step(stage, AwaitWalletPlatformTestStatus)
         IN  IF await_opt = None THEN Continue
             ELSE LET status == wallet_platform_system_status(drone2_build)
                  IN  IF status = "panic" THEN Panic
                      ELSE IF \/ get_stopped_timestamp(unit_test_step) = None
                              \/ get_started_timestamp(unit_test_step) = None
                              \/ get_stopped_timestamp(await_opt[1]) = None
                           THEN Panic
                      ELSE [kind |-> "row",
                            row |-> Record(git_sha, drone1_build, drone2_build,
                                           unit_test_step, await_opt[1], status)]

\* One pass of the loop body of write_csv_aux on the bucket of git_sha: the
\* loop continues without a row, a row is serialized, or the run panics.
BucketOutcome(git_sha, drone1_builds, drone2_builds) ==
    IF drone1_builds = <<>> \/ drone2_builds = <<>> THEN Continue
    ELSE LET drone1_build == representative(drone1_builds)
             drone2_build == representative(drone2_builds)
             stage_opt == get_stage(drone1_build, BuildPullRequest)
         IN  IF stage_opt = None THEN Continue
             ELSE LET unit_opt == get_step(stage_opt[1], RunWalletPlatformUnitTests)
                  IN  IF unit_opt = None THEN Continue
                      ELSE AfterUnitTestStep(git_sha, drone1_build, drone2_build,
                                             stage_opt[1], unit_opt[1])

OutcomeOf(git_sha) ==
    BucketOutcome(git_sha, git_sha_to_builds[git_sha][1], git_sha_to_builds[git_sha][2])

\* the variables write_csv_aux leaves alone
CsvFrame ==
    UNCHANGED <<window_start, window_end, develop, builds, paginator,
                drone_build_list_item, filter_state, git_sha_to_builds,
                page_requests, build_info_requests, yielded, status_vars, pages>>

\* the loop of write_csv_aux visits the bucket of git_sha (a HashMap is
\* iterated in no particular order) and goes on without a row
CsvContinue(git_sha) ==
    /\ pc = "write_csv"
    /\ git_sha \in pending
    /\ OutcomeOf(git_sha).kind = "continue"
    /\ pending' = pending \ {git_sha}
    /\ UNCHANGED <<pc, rows>>
    /\ CsvFrame

CsvRow_keeps_pending(git_sha) ==
    /\ pc = "write_csv"
    /\ git_sha \in pending
    /\ OutcomeOf(git_sha).kind = "row"
    /\ rows' = Append(rows, OutcomeOf(git_sha).row)
    /\ UNCHANGED <<pc, pending>>
    /\ CsvFrame

\* ... and serializes a row
CsvRow(git_sha) ==
    /\ pc = "write_csv"
    /\ git_sha \in pending
    /\ OutcomeOf(git_sha).kind = "row"
    /\ pending' = pending \ {git_sha}
    /\ rows' = Append(rows, OutcomeOf(git_sha).row)
    /\ UNCHANGED pc
    /\ CsvFrame

\* ... and panics in wallet_platform_system_status or in the unwrap of an
\* absent timestamp
CsvPanics(git_sha) ==
    /\ pc = "write_csv"
    /\ git_sha \in pending
    /\ OutcomeOf(git_sha).kind = "panic"
    /\ pc' = "panicked"
    /\ UNCHANGED <<pending, rows>>
    /\ CsvFrame

\* every bucket has been visited: write_csv_aux returns
CsvDone ==
    /\ pc = "write_csv"
    /\ pending = {}
    /\ pc' = "done"
    /\ UNCHANGED <<pending, rows>>
    /\ CsvFrame

(***************************************************************************)
(* SpecLookup: get_stage and get_step applied to drawn stage and step      *)
(* lists, in which a name may occur more than once.                        *)
(***************************************************************************)
\* longest stage list and longest step list drawn
MaxEntries == 3

\* entries at different positions of a list differ in their status
PositionStatus(i) ==
    IF i = 1 THEN "Success"
    ELSE IF i = 2 THEN "Failure"
    ELSE IF i = 3 THEN "Running"
    ELSE IF i = 4 THEN "Skipped"
    ELSE "Killed"

EntryNames == {BuildPullRequest, WalletPlatformApi}

\* the names looked up: the two that occur and one that never does
LookupNames == EntryNames \cup {RunWalletPlatformUnitTests}

EntryVariants == {1, 2}

\* the stage lists drawn: each entry has either shape and either name
StageLists ==
    UNION {{[i \in 1..n |-> IF v[i] = 1
                            THEN Drone1Stage(nm[i], PositionStatus(i), <<>>)
                            ELSE Drone2Stage(nm[i], PositionStatus(i), <<>>)] :
               v \in [1..n -> EntryVariants], nm \in [1..n -> EntryNames]} :
           n \in 0..MaxEntries}

\* the step lists drawn
StepLists ==
    UNION {{[i \in 1..n |-> IF v[i] = 1
                            THEN Drone1Step(nm[i], PositionStatus(i), None, None)
                            ELSE Drone2Step(nm[i], PositionStatus(i), None, None)] :
               v \in [1..n -> EntryVariants], nm \in [1..n -> EntryNames]} :
           n \in 0..MaxEntries}

\* a build with a drawn stage list, or a build with one stage of either shape
\* that holds a drawn step list
InitLookup ==
    /\ pc = "lookup"
    /\ \/ \E stages \in StageLists :
             drone_build_info = [build_info |-> [NoItem EXCEPT !.number = 1],
                                 stages |-> stages]
       \/ \E steps \in StepLists :
             \/ drone_build_info = [build_info |-> [NoItem EXCEPT !.number = 1],
                                    stages |-> <<Drone1Stage(BuildPullRequest, "Success", steps)>>]
             \/ drone_build_info = [build_info |-> [NoItem EXCEPT !.number = 1],
                                    stages |-> <<Drone2Stage(BuildPullRequest, "Success", steps)>>]
    /\ lookup = NoLookup
    /\ system_status = "NotCalled"
    /\ window_start = 0
    /\ window_end = 0
    /\ develop = FALSE
    /\ builds = [b \in Clients |-> <<>>]
    /\ paginator = [page |-> 0, drone |-> 0, cached |-> <<>>]
    /\ drone_build_list_item = NoItem
    /\ filter_state = "NotCalled"
    /\ git_sha_to_builds = <<>>
    /\ page_requests = <<>>
    /\ build_info_requests = <<>>
    /\ yielded = [b \in Clients |-> <<>>]
    /\ pending = {}
    /\ rows = <<>>
    /\ pages = 0

LookupFrame ==
    UNCHANGED <<window_start, window_end, develop, builds, paginator,
                drone_build_list_item, filter_state, git_sha_to_builds,
                page_requests, build_info_requests, yielded, report_vars,
                drone_build_info, system_status, pages>>

\* drone_build_info.get_stage(stage_name)
GetStageCall(stage_name) ==
    /\ pc = "lookup"
    /\ lookup' = [op |-> "get_stage", name |-> stage_name, stage |-> 0,
                  found |-> get_stage(drone_build_info, stage_name)]
    /\ pc' = "lookup_returned"
    /\ LookupFrame

\* drone_build_info.stages[i].get_step(step_name)
GetStepCall(i, step_name) ==
    /\ pc = "lookup"
    /\ i \in 1..Len(drone_build_info.stages)
    /\ lookup' = [op |-> "get_step", name |-> step_name, stage |-> i,
                  found |-> get_step(drone_build_info.stages[i], step_name)]
    /\ pc' = "lookup_returned"
    /\ LookupFrame

NextLookup ==
    \/ \E stage_name \in LookupNames : GetStageCall(stage_name)
    \/ \E i \in 1..MaxEntries, step_name \in LookupNames : GetStepCall(i, step_name)

SpecLookup == InitLookup /\ [][NextLookup]_vars

(***************************************************************************)
(* SpecCsv: write_csv_aux applied to a drawn commit_build_map.             *)
(***************************************************************************)
\* longest collection drawn for one side of a bucket
MaxSide == 2

Build(number, started, stages) ==
    [build_info |-> [NoItem EXCEPT !.number = number, !.status = "Success",
                                   !.event = "PullRequest",
                                   !.timestamps.started = started],
     stages |-> stages]

UnitTestStep(status, started, stopped) ==
    Drone1Step(RunWalletPlatformUnitTests, status, started, stopped)

AwaitStep(status, started, stopped) ==
    Drone1Step(AwaitWalletPlatformTestStatus, status, started, stopped)

\* Gen1 stage lists with both steps and every timestamp the row needs; the
\* await step stops at await_stopped
Complete(await_stopped) ==
    <<Drone1Stage(BuildPullRequest, "Success",
                  <<UnitTestStep("Success", Some(100), Some(160)),
                    AwaitStep("Failure", None, Some(await_stopped))>>)>>

\* the same in the Gen2 shape of stage and step
CompleteDrone2Shaped ==
    <<Drone2Stage(BuildPullRequest, "Success",
                  <<Drone2Step(RunWalletPlatformUnitTests, "Failure", Some(100), Some(160)),
                    Drone2Step(AwaitWalletPlatformTestStatus, "Success", Some(160), Some(250))>>)>>

AwaitStops == {50, 100, 250, 279, 280}

\* Gen1 stage lists that miss the stage, a step, or a timestamp
Incomplete ==
    {<<>>,
     <<Drone1Stage(WalletPlatformApi, "Success", <<>>)>>,
     <<Drone1Stage(BuildPullRequest, "Success",
                   <<AwaitStep("Success", Some(160), Some(250))>>)>>,
     <<Drone1Stage(BuildPullRequest, "Success",
                   <<UnitTestStep("Skipped", None, None),
                     AwaitStep("Success", Some(160), Some(250))>>)>>,
     <<Drone1Stage(BuildPullRequest, "Success",
                   <<UnitTestStep("Success", Some(100), Some(160))>>)>>,
     <<Drone1Stage(BuildPullRequest, "Success",
                   <<UnitTestStep("Pending", None, Some(160)),
                     AwaitStep("Success", Some(160), Some(250))>>)>>,
     <<Drone1Stage(BuildPullRequest, "Success",
                   <<UnitTestStep("Running", Some(100), None),
                     AwaitStep("Success", Some(160), Some(250))>>)>>,
     <<Drone1Stage(BuildPullRequest, "Success",
                   <<UnitTestStep("Success", Some(100), Some(160)),
                     AwaitStep("Running", Some(160), None)>>)>>}

Gen1Stages == {Complete(t) : t \in AwaitStops} \cup {CompleteDrone2Shaped} \cup Incomplete

Gen1StagesOfRetries == {Complete(250), Complete(280), <<>>}

Gen2Stages ==
    {<<Drone2Stage(WalletPlatformApi, "Success", <<>>)>>,
     <<Drone2Stage(WalletPlatformApi, "Killed", <<>>)>>,
     <<Drone2Stage(BuildPullRequest, "Failure", <<>>)>>,
     <<>>,
     <<Drone1Stage(WalletPlatformApi, "Success", <<>>)>>}

Gen2StagesOfRetries ==
    {<<Drone2Stage(WalletPlatformApi, "Success", <<>>)>>,
     <<Drone2Stage(WalletPlatformApi, "Killed", <<>>)>>}

Gen2Starts == {120, 260}

Permutations(n) == {f \in [1..n -> 1..n] : \A i, j \in 1..n : f[i] = f[j] => i = j}

\* The collections drawn for one side of a bucket: empty, one build with any
\* of the stage lists `single`, or 2..MaxSide builds with stage lists of
\* `retries`, pushed in any order of their build numbers; the backend
\* numbers its builds from first + 1.
Sides(single, retries, starts, first) ==
    {<<>>}
    \cup {<<Build(first + 1, t, st)>> : st \in single, t \in starts}
    \cup UNION {UNION {{[i \in 1..n |-> Build(first + f[i], CHOOSE t \in starts : TRUE, s[i])] :
                           f \in Permutations(n)} :
                       s \in [1..n -> retries]} :
                n \in 2..MaxSide}

\* the buckets drawn for the second commit
OtherBuckets ==
    {<<d1, d2>> :
        d1 \in {<<>>, <<Build(MaxSide + 1, 0, Complete(250))>>, <<Build(MaxSide + 1, 0, <<>>)>>},
        d2 \in {<<>>, <<Build(10 + MaxSide + 1, 120, <<Drone2Stage(WalletPlatformApi, "Success", <<>>)>>)>>}}

InitCsv ==
    /\ pc = "write_csv"
    /\ \E d1 \in Sides(Gen1Stages, Gen1StagesOfRetries, {0}, 0),
          d2 \in Sides(Gen2Stages, Gen2StagesOfRetries, Gen2Starts, 10) :
          \/ git_sha_to_builds = [k \in {"a"} |-> <<d1, d2>>]
          \/ \E other \in OtherBuckets :
                git_sha_to_builds = [k \in {"a", "b"} |-> IF k = "a" THEN <<d1, d2>> ELSE other]
    /\ pending = DOMAIN git_sha_to_builds
    /\ rows = <<>>
    /\ drone_build_info = NoBuildInfo
    /\ system_status = "NotCalled"
    /\ pages = 0
    /\ lookup = NoLookup
    /\ window_start = 0
    /\ window_end = 0
    /\ develop = FALSE
    /\ builds = [b \in Clients |-> <<>>]
    /\ paginator = [page |-> 0, drone |-> 0, cached |-> <<>>]
    /\ drone_build_list_item = NoItem
    /\ filter_state = "NotCalled"
    /\ page_requests = <<>>
    /\ build_info_requests = <<>>
    /\ yielded = [b \in Clients |-> <<>>]

NextCsv ==
    \/ \E git_sha \in GitShas : CsvContinue(git_sha)
    \/ \E git_sha \in GitShas : CsvRow(git_sha)
    \/ \E git_sha \in GitShas : CsvPanics(git_sha)
    \/ CsvDone

SpecCsv == InitCsv /\ [][NextCsv]_vars

(***************************************************************************)
(* Detail endpoint (src/drone.rs) and correlation map (src/main.rs).       *)
(***************************************************************************)
\* The stage list backend b holds for a build: none for a build that failed
\* before its first stage, else the build-pull-request stage with both steps
\* on drone1 and one wallet-platform stage on drone2.
stages_of(b, item) ==
    IF item.status = "Failure" THEN <<>>
    ELSE IF b = 1 THEN Complete(250)
    ELSE <<Drone2Stage(WalletPlatformApi, item.status, <<>>)>>

\* The DroneBuildInfo backend b answers for build_number: the summary it
\* holds under that number (flattened into build_info) and the stage list,
\* which drone_build_map never reads.
get_build_info(b, build_number) ==
    LET hits == {i \in 1..Len(builds[b]) : builds[b][i].number = build_number}
        item == IF hits = {} THEN [NoItem EXCEPT !.number = build_number]
                             ELSE builds[b][CHOOSE i \in hits : TRUE]
    IN  [build_info |-> item, stages |-> stages_of(b, item)]

\* HashMap::entry(key).or_default()
entry_or_default(map, key) ==
    IF key \in DOMAIN map THEN map
    ELSE [k \in DOMAIN map \cup {key} |-> IF k = key THEN <<<<>>, <<>>>> ELSE map[k]]

\* push inserting at the front of the collection
push_front(map, key, side, info) ==
    [map EXCEPT ![key] = [@ EXCEPT ![side] = <<info>> \o @]]

\* git_sha_entry.0.push(info) for side 1, git_sha_entry.1.push(info) for side 2
push(map, key, side, info) ==
    [map EXCEPT ![key] = [@ EXCEPT ![side] = Append(@, info)]]

\* the client the retrieval loop of backend b iterates
LoopClient_other(b) == 3 - b

LoopClient(b) == b

\* both loops passing drone1_client to filter_build
FilterClient_drone1(b) == 1

\* the client the retrieval loop of backend b passes to filter_build
FilterClient(b) == b

\* the collection of the bucket the retrieval loop of backend b pushes into
LoopSide(b) == b

\* pc while the retrieval loop of backend b runs, and after it has ended
LoopPc(b) == IF b = 1 THEN "loop1" ELSE "loop2"
AfterLoopPc(b) == IF b = 1 THEN "loop1_done" ELSE "returned"
BeforeLoopPc(b) == IF b = 1 THEN "main" ELSE "loop1_done"

(***************************************************************************)
(* Spec: a run of drone_build_map.                                         *)
(***************************************************************************)
RunItem(created, finished, git_sha, status, event, branch) ==
    DroneBuildListItem(0, status, event, branch, branch, git_sha,
                       [started |-> 0, finished |-> finished, created |-> created,
                        updated |-> 0])

\* The summaries a backend may hold in a run, for the window <<2, 1>>.
RunItems ==
    {RunItem(1, 1, "a", "Success", "PullRequest", "main"),
     RunItem(1, 1, "b", "Failure", "PullRequest", "main"),
     RunItem(1, 1, "a", "Running", "PullRequest", "main"),
     RunItem(1, 1, "a", "Success", "Push", "develop"),
     RunItem(1, 0, "b", "Success", "PullRequest", "main"),
     RunItem(0, 1, "a", "Success", "PullRequest", "main"),
     RunItem(0, 0, "a", "Success", "PullRequest", "main"),
     RunItem(-1, 1, "b", "Success", "PullRequest", "main")}

RunWindows == {<<2, 1>>}

\* build numbers are assigned in sequence; the list is newest first
Numbered(s) == [i \in 1..Len(s) |-> [s[i] EXCEPT !.number = Len(s) - i + 1]]

NoPaginator == [page |-> 0, drone |-> 0, cached |-> <<>>]

Init ==
    /\ pc = "main"
    /\ \E w \in RunWindows : window_start = w[1] /\ window_end = w[2]
    /\ develop \in BOOLEAN
    /\ \E n1 \in 0..MaxBuilds, n2 \in 0..MaxBuilds :
          /\ n1 + n2 <= MaxBuilds
          /\ \E s1 \in [1..n1 -> RunItems], s2 \in [1..n2 -> RunItems] :
                builds = [b \in Clients |-> IF b = 1 THEN Numbered(s1) ELSE Numbered(s2)]
    /\ paginator = NoPaginator
    /\ drone_build_list_item = NoItem
    /\ filter_state = "NotCalled"
    /\ git_sha_to_builds = [k \in {} |-> <<<<>>, <<>>>>]
    /\ page_requests = <<>>
    /\ build_info_requests = <<>>
    /\ yielded = [b \in Clients |-> <<>>]
    /\ ReportIdle

\* page_requests after the call of next on the live paginator
PageRequestsAfterNext ==
    IF next(paginator).fetched
    THEN Append(page_requests, [drone |-> paginator.drone, page |-> next(paginator).fetched_page])
    ELSE page_requests

\* for ... in droneN_client.get_builds_paginated(): the loop is entered
EnterLoop(b) ==
    /\ pc = BeforeLoopPc(b)
    /\ paginator' = get_builds_paginated(LoopClient(b))
    /\ pc' = LoopPc(b)
    /\ UNCHANGED <<window_start, window_end, develop, builds, drone_build_list_item,
                   filter_state, git_sha_to_builds, page_requests,
                   build_info_requests, yielded>>
    /\ UNCHANGED <<report_vars, status_vars, pages>>

LoopExhausted_waits(b) ==
    /\ pc = LoopPc(b)
    /\ ~next(paginator).some
    /\ UNCHANGED vars

\* next() returns None: the for loop ends
LoopExhausted(b) ==
    /\ pc = LoopPc(b)
    /\ ~next(paginator).some
    /\ paginator' = next(paginator).paginator
    /\ page_requests' = PageRequestsAfterNext
    /\ pc' = AfterLoopPc(b)
    /\ UNCHANGED <<window_start, window_end, develop, builds, drone_build_list_item,
                   filter_state, git_sha_to_builds, build_info_requests, yielded>>
    /\ UNCHANGED <<report_vars, status_vars, pages>>

\* One iteration of the loop body on the summary next() yields, up to the
\* match on the FilterState `state`.
Iteration(b, state) ==
    /\ pc = LoopPc(b)
    /\ next(paginator).some
    /\ filter_build(next(paginator).item, window_start, window_end, develop) = state
    /\ paginator' = next(paginator).paginator
    /\ page_requests' = PageRequestsAfterNext
    /\ yielded' = [yielded EXCEPT ![paginator.drone] = Append(@, next(paginator).item)]
    /\ drone_build_list_item' = next(paginator).item
    /\ filter_state' = state
    /\ UNCHANGED <<window_start, window_end, develop, builds>>
    /\ UNCHANGED <<report_vars, status_vars, pages>>

\* FilterState::Break => break
LoopBreak(b) ==
    /\ Iteration(b, "Break")
    /\ git_sha_to_builds' =
          entry_or_default(git_sha_to_builds, next(paginator).item.git_metadata.git_sha)
    /\ pc' = AfterLoopPc(b)
    /\ UNCHANGED build_info_requests

\* FilterState::Continue => continue
LoopContinue(b) ==
    /\ Iteration(b, "Continue")
    /\ git_sha_to_builds' =
          entry_or_default(git_sha_to_builds, next(paginator).item.git_metadata.git_sha)
    /\ pc' = LoopPc(b)
    /\ UNCHANGED build_info_requests

\* FilterState::DroneBuildInfo(info) => git_sha_entry.N.push(info)
LoopAdmit(b) ==
    /\ Iteration(b, "DroneBuildInfo")
    /\ LET item == next(paginator).item
           key == item.git_metadata.git_sha
       IN  /\ build_info_requests' =
                 Append(build_info_requests, [drone |-> FilterClient(b), number |-> item.number])
           /\ git_sha_to_builds' =
                 push(entry_or_default(git_sha_to_builds, key), key, LoopSide(b),
                      get_build_info(FilterClient(b), item.number))
    /\ pc' = LoopPc(b)

PageFetchPanics_ends_loop(b) ==
    /\ pc = LoopPc(b)
    /\ next(paginator).fetched
    /\ page_requests' = PageRequestsAfterNext
    /\ pc' = AfterLoopPc(b)
    /\ UNCHANGED <<window_start, window_end, develop, builds, paginator,
                   drone_build_list_item, filter_state, git_sha_to_builds,
                   build_info_requests, yielded>>
    /\ UNCHANGED <<report_vars, status_vars, pages>>

\* get_bgms_build_list_with_page panics (transport error, error status,
\* undecodable body): the run aborts inside next()
PageFetchPanics(b) ==
    /\ pc = LoopPc(b)
    /\ next(paginator).fetched
    /\ page_requests' = PageRequestsAfterNext
    /\ pc' = "panicked"
    /\ UNCHANGED <<window_start, window_end, develop, builds, paginator,
                   drone_build_list_item, filter_state, git_sha_to_builds,
                   build_info_requests, yielded>>
    /\ UNCHANGED <<report_vars, status_vars, pages>>

\* get_build_info panics: the run aborts inside filter_build
BuildInfoPanics(b) ==
    /\ Iteration(b, "DroneBuildInfo")
    /\ LET item == next(paginator).item
       IN  /\ build_info_requests' =
                 Append(build_info_requests, [drone |-> FilterClient(b), number |-> item.number])
           /\ git_sha_to_builds' =
                 entry_or_default(git_sha_to_builds, item.git_metadata.git_sha)
    /\ pc' = "panicked"

\* crate::csv::write_csv(commit_sha_to_builds, cli.file): the loop of
\* write_csv_aux starts on the returned map
WriteCsv ==
    /\ pc = "returned"
    /\ pc' = "write_csv"
    /\ pending' = DOMAIN git_sha_to_builds
    /\ UNCHANGED rows
    /\ CsvFrame

Next ==
    \/ \E b \in Clients : EnterLoop(b)
    \/ \E b \in Clients : LoopExhausted(b)
    \/ \E b \in Clients : LoopBreak(b)
    \/ \E b \in Clients : LoopContinue(b)
    \/ \E b \in Clients : LoopAdmit(b)
    \/ \E b \in Clients : PageFetchPanics(b)
    \/ \E b \in Clients : BuildInfoPanics(b)
    \/ WriteCsv
    \/ \E git_sha \in GitShas : CsvContinue(git_sha)
    \/ \E git_sha \in GitShas : CsvRow(git_sha)
    \/ \E git_sha \in GitShas : CsvPanics(git_sha)
    \/ CsvDone

Spec == Init /\ [][Next]_vars

\* a run in which every request is answered, up to the call of write_csv
NextNoFetchFailure ==
    \/ \E b \in Clients : EnterLoop(b)
    \/ \E b \in Clients : LoopExhausted(b)
    \/ \E b \in Clients : LoopBreak(b)
    \/ \E b \in Clients : LoopContinue(b)
    \/ \E b \in Clients : LoopAdmit(b)
    \/ WriteCsv

\* the program is one thread that runs until it returns or panics
SpecNoFetchFailure ==
    Init /\ [][NextNoFetchFailure]_vars /\ WF_vars(NextNoFetchFailure)

(***************************************************************************)
(* SpecPaginator: a caller that mixes next and skip_pages_mut on one       *)
(* DroneBuildsPaginator.                                                   *)
(***************************************************************************)
skip_pages_mut_keeps_cached(p, n) ==
    IF n > 0 THEN [p EXCEPT !.page = @ + n] ELSE p

\* DroneBuildsPaginator::skip_pages_mut(pages) on paginator p
skip_pages_mut(p, n) ==
    IF n > 0 THEN [p EXCEPT !.cached = <<>>, !.page = @ + n] ELSE p

\* largest page cursor a caller drives the paginator to
MaxPage == 5

\* largest number of pages skipped in one call
MaxSkip == 2

\* the list endpoint of drone1 holds 0 .. 2 * MaxBuilds builds, drone2 none
InitPaginator ==
    /\ pc = "get_builds_paginated"
    /\ \E n \in 0..(2 * MaxBuilds) :
          builds = [b \in Clients |->
                       IF b = 1
                       THEN Numbered([i \in 1..n |-> RunItem(1, 1, "a", "Success", "PullRequest", "main")])
                       ELSE <<>>]
    /\ paginator = get_builds_paginated(1)
    /\ page_requests = <<>>
    /\ yielded = [b \in Clients |-> <<>>]
    /\ drone_build_list_item = NoItem
    /\ window_start = 0
    /\ window_end = 0
    /\ develop = FALSE
    /\ filter_state = "NotCalled"
    /\ git_sha_to_builds = <<>>
    /\ build_info_requests = <<>>
    /\ ReportIdle

PaginatorFrame ==
    UNCHANGED <<window_start, window_end, develop, builds, filter_state,
                git_sha_to_builds, build_info_requests, report_vars, status_vars>>

\* paginator.next()
NextCall ==
    /\ pc \in {"get_builds_paginated", "next", "skip_pages_mut"}
    /\ paginator.page <= MaxPage
    /\ paginator' = next(paginator).paginator
    /\ page_requests' = PageRequestsAfterNext
    /\ yielded' = IF next(paginator).some
                  THEN [yielded EXCEPT ![paginator.drone] = Append(@, next(paginator).item)]
                  ELSE yielded
    /\ drone_build_list_item' = next(paginator).item
    /\ pc' = "next"
    /\ UNCHANGED pages
    /\ PaginatorFrame

\* paginator.skip_pages_mut(n)
SkipPagesMutCall(n) ==
    /\ pc \in {"get_builds_paginated", "next", "skip_pages_mut"}
    /\ paginator.page + n <= MaxPage
    /\ paginator' = skip_pages_mut(paginator, n)
    /\ pages' = n
    /\ pc' = "skip_pages_mut"
    /\ UNCHANGED <<page_requests, yielded, drone_build_list_item>>
    /\ PaginatorFrame

NextPaginator ==
    \/ NextCall
    \/ \E n \in 0..MaxSkip : SkipPagesMutCall(n)

SpecPaginator == InitPaginator /\ [][NextPaginator]_vars

(***************************************************************************)
(* Properties of the window filter, checked under SpecFilter.              *)
(***************************************************************************)
Called == filter_state # "NotCalled"

Finished == drone_build_list_item.timestamps.finished
Created == drone_build_list_item.timestamps.created

\* C1: filter_build returns Break if and only if the summary's finished and
\* created timestamps are both strictly before window_end.
C1_BreakIffBothBeforeWindowEnd ==
    Called => ((filter_state = "Break") <=> (Finished < window_end /\ Created < window_end))

\* C2: every summary filter_build admits has both its created and its
\* finished timestamp within [window_end, window_start].
C2_AdmittedInsideWindow ==
    filter_state = "DroneBuildInfo" =>
        /\ window_end <= Created /\ Created <= window_start
        /\ window_end <= Finished /\ Finished <= window_start

\* C4: a summary that passes the two time tests is admitted exactly when its
\* event matches the mode (pull-request mode: event pull-request; develop
\* mode: push with source = target = "develop") and its status is not
\* Running; otherwise it is skipped.
PassesTimeTests ==
    /\ ~CreatedAndFinishedOutside(drone_build_list_item, window_end)
    /\ ~CreatedBeforeOrFinishedAfter(drone_build_list_item, window_start, window_end)

MatchesPolicy ==
    /\ develop => /\ drone_build_list_item.event = "Push"
                  /\ drone_build_list_item.source = "develop"
                  /\ drone_build_list_item.target = "develop"
    /\ ~develop => drone_build_list_item.event = "PullRequest"

C4_PolicyDecidesAdmission ==
    (Called /\ PassesTimeTests) =>
        IF MatchesPolicy /\ drone_build_list_item.status # "Running"
        THEN filter_state = "DroneBuildInfo"
        ELSE filter_state = "Continue"

C4_Witness ==
    /\ filter_state = "DroneBuildInfo"
    /\ develop
    /\ drone_build_list_item.status = "Pending"

\* C5: the classification does not depend on the started and updated
\* timestamps: any summary that differs from the classified one only in
\* started and updated is classified the same for the same window and mode.
C5_IndependentOfStartedUpdated ==
    Called =>
        \A s \in AltTimes, u \in AltTimes :
            filter_build([drone_build_list_item EXCEPT !.timestamps.started = s,
                                                       !.timestamps.updated = u],
                         window_start, window_end, develop) = filter_state

C5_Witness ==
    /\ filter_state = "DroneBuildInfo"
    /\ drone_build_list_item.timestamps.started > Finished
    /\ drone_build_list_item.timestamps.updated < Created

(***************************************************************************)
(* Properties of a run, checked under Spec.                                *)
(***************************************************************************)
Last(s) == s[Len(s)]

Classify(item) == filter_build(item, window_start, window_end, develop)

\* the retrieval loop of backend b has ended and the run has not panicked
LoopEnded(b) ==
    IF b = 1 THEN pc \in {"loop1_done", "loop2", "returned", "write_csv", "done"}
    ELSE pc \in {"returned", "write_csv", "done"}

\* C3: a summary that is not STOP is skipped whenever finished > window_start
\* or created < window_end, and after a skip the loop of the same backend
\* goes on.
C3_SkippedWhenOutsideWindow ==
    /\ (Called /\ filter_state # "Break"
          /\ (Finished > window_start \/ Created < window_end))
       => filter_state = "Continue"
    /\ (filter_state = "Continue" /\ pc \in {"loop1", "loop2"})
       => pc = LoopPc(paginator.drone)

\* the build numbers of the details stored on side b of the map
StoredNumbers(b) ==
    UNION {{git_sha_to_builds[k][b][i].build_info.number :
               i \in 1..Len(git_sha_to_builds[k][b])} : k \in DOMAIN git_sha_to_builds}

\* the build numbers a scan of the whole build list of backend b would admit
ScanAdmits(b) ==
    {builds[b][i].number : i \in {j \in 1..Len(builds[b]) :
                                     Classify(builds[b][j]) = "DroneBuildInfo"}}

DecreasingCreation(b) ==
    \A i, j \in 1..Len(builds[b]) :
        i < j => builds[b][i].timestamps.created > builds[b][j].timestamps.created

\* C6: when backend b lists its builds in decreasing order of creation time,
\* the builds admitted by its retrieval loop, which stops at the first STOP,
\* are those a scan of the whole list admits.
C6_BreakLosesNoBuild ==
    \A b \in Clients :
        (LoopEnded(b) /\ DecreasingCreation(b)) => StoredNumbers(b) = ScanAdmits(b)

\* the detail fetches issued on client b, in order
RequestsOf(b) ==
    LET OnClient(r) == r.drone = b IN SelectSeq(build_info_requests, OnClient)

\* the summaries yielded for backend b that are classified ADMIT, in order
AdmittedOf(b) ==
    LET Admit(item) == Classify(item) = "DroneBuildInfo" IN SelectSeq(yielded[b], Admit)

\* the number of details stored on side b of the map
StoredCount(b) ==
    Cardinality(UNION {{<<k, i>> : i \in 1..Len(git_sha_to_builds[k][b])} :
                          k \in DOMAIN git_sha_to_builds})

\* C7: the detail fetches issued on the client of backend b are, in order and
\* one each, those for the build numbers of the summaries of backend b
\* classified ADMIT, none for a STOP or SKIP summary; in a run that has not
\* panicked their number is the number of details stored on side b.
C7_OneFetchPerAdmit ==
    /\ \A i \in 1..Len(build_info_requests) : build_info_requests[i].drone \in Clients
    /\ \A b \in Clients :
          /\ Len(RequestsOf(b)) = Len(AdmittedOf(b))
          /\ \A i \in 1..Len(RequestsOf(b)) : RequestsOf(b)[i].number = AdmittedOf(b)[i].number
          /\ pc # "panicked" => Len(RequestsOf(b)) = StoredCount(b)

C7_Witness ==
    /\ pc = "returned"
    /\ \A b \in Clients : RequestsOf(b) # <<>>
    /\ \E b \in Clients : Len(yielded[b]) > Len(RequestsOf(b))

\* the page fetches issued for backend b, in order
PagesRequested(b) ==
    LET OnClient(r) == r.drone = b IN SelectSeq(page_requests, OnClient)

RECURSIVE ConcatPages(_, _)
\* the entries of pages 1..k of backend b, in page order
ConcatPages(b, k) ==
    IF k = 0 THEN <<>>
    ELSE ConcatPages(b, k - 1) \o get_bgms_build_list_with_page(b, k)

C8_PagesAndEntriesInOrder ==
    \A b \in Clients :
        LET k == Len(PagesRequested(b))
        IN  /\ \A i \in 1..k : PagesRequested(b)[i].page = i
            /\ k = 0 => yielded[b] = <<>>
            /\ k > 0 =>
                  /\ Len(yielded[b]) >= Len(ConcatPages(b, k - 1))
                  /\ Len(yielded[b]) <= Len(ConcatPages(b, k))
                  /\ yielded[b] = SubSeq(ConcatPages(b, k), 1, Len(yielded[b]))

C8_FetchOnlyWhenBufferEmpty ==
    page_requests' # page_requests => paginator.cached = <<>>

\* C8: next fetches a page only when its buffer is empty; for each backend
\* the pages requested are 1, 2, 3, ... in order, page k+1 is not requested
\* before every entry of page k has been yielded, and the entries are yielded
\* once each, in page order and in their order within the page.
C8_PagesOnDemandInOrder ==
    [](C8_PagesAndEntriesInOrder) /\ [][C8_FetchOnlyWhenBufferEmpty]_vars

C8_Witness ==
    \E b \in Clients :
        /\ Len(PagesRequested(b)) >= 2
        /\ Len(yielded[b]) > Len(ConcatPages(b, 1))

\* the retrieval loop of backend b ended on a summary classified STOP
EndedByStop(b) == yielded[b] # <<>> /\ Classify(Last(yielded[b])) = "Break"

\* C9 as stated: next never signals the end of the sequence, so a retrieval
\* loop ends only on a summary classified STOP.
C9_OnlyStopEndsLoop ==
    \A b \in Clients : LoopEnded(b) => EndedByStop(b)

\* C9 amended: next signals the end of the sequence exactly when its buffer is
\* empty and the page it then fetches is empty; a retrieval loop ends on a
\* STOP summary or on the first empty page, with every entry of the earlier
\* pages yielded, and it goes on as long as neither has happened.
C9_EndsAtStopOrEmptyPage ==
    \A b \in Clients :
        LET k == Len(PagesRequested(b))
        IN  /\ LoopEnded(b) =>
                  \/ EndedByStop(b)
                  \/ /\ k > 0
                     /\ get_bgms_build_list_with_page(b, PagesRequested(b)[k].page) = <<>>
                     /\ yielded[b] = ConcatPages(b, k)
            /\ pc = LoopPc(b) =>
                  /\ ~EndedByStop(b)
                  /\ \A i \in 1..k :
                        get_bgms_build_list_with_page(b, PagesRequested(b)[i].page) # <<>>

C9_Witness ==
    /\ LoopEnded(1)
    /\ ~EndedByStop(1)
    /\ yielded[1] # <<>>

\* the detail the backend answers for an admitted summary
DetailOf(b, item) == [build_info |-> item, stages |-> stages_of(b, item)]

\* the details admitted from the summaries of backend b with commit id c, in
\* admission order
AdmittedDetails(b, c) ==
    LET Admit(item) == /\ Classify(item) = "DroneBuildInfo"
                       /\ item.git_metadata.git_sha = c
        s == SelectSeq(yielded[b], Admit)
    IN  [i \in 1..Len(s) |-> DetailOf(b, s[i])]

C10_BucketsHoldAdmitted ==
    pc \in {"main", "loop1", "loop1_done", "loop2", "returned", "write_csv", "done"} =>
        \A c \in GitShas, b \in Clients :
            IF c \in DOMAIN git_sha_to_builds
            THEN git_sha_to_builds[c][b] = AdmittedDetails(b, c)
            ELSE AdmittedDetails(b, c) = <<>>

C10_OnlyAppends ==
    \A c \in DOMAIN git_sha_to_builds :
        /\ c \in DOMAIN git_sha_to_builds'
        /\ \A b \in Clients :
              LET old == git_sha_to_builds[c][b]
                  new == git_sha_to_builds'[c][b]
              IN  \/ new = old
                  \/ /\ Len(new) = Len(old) + 1
                     /\ SubSeq(new, 1, Len(old)) = old

\* C10: the bucket of commit id c holds in its first collection the details
\* admitted from the Gen1 summaries with commit id c and in its second those
\* admitted from the Gen2 summaries with commit id c, in admission order;
\* every step leaves a collection unchanged or appends one detail to its end,
\* and no bucket is removed.
C10_BucketsFilledByAppends ==
    [](C10_BucketsHoldAdmitted) /\ [][C10_OnlyAppends]_vars

C10_Witness ==
    /\ pc = "returned"
    /\ \E c \in DOMAIN git_sha_to_builds :
          /\ Len(git_sha_to_builds[c][1]) >= 2
          /\ git_sha_to_builds[c][1][1] # git_sha_to_builds[c][1][2]
          /\ Len(git_sha_to_builds[c][2]) >= 1

(***************************************************************************)
(* Properties of wallet_platform_system_status, checked under SpecStatus.  *)
(***************************************************************************)
StatusCalled == system_status # "NotCalled"

StagesGiven == drone_build_info.stages

AllDrone2Stages == \A i \in 1..Len(StagesGiven) : StagesGiven[i].variant = "Drone2Stage"

\* some stage whose name starts with "wallet-platform-" has a status other
\* than Success and Skipped
SomeWalletPlatformStageFailed ==
    \E i \in 1..Len(StagesGiven) :
        LET name == StagesGiven[i].drone_stage.name
        IN  /\ Len(name) >= 3 /\ name[1] = "wallet" /\ name[2] = "platform"
            /\ StagesGiven[i].drone_stage.status \notin {"Success", "Skipped"}

FoldVerdict == IF SomeWalletPlatformStageFailed THEN "Failure" ELSE "Success"

\* C15 as stated: for every build whose stages are all Gen2-shaped the
\* function returns Failure if some wallet-platform-* stage has a status other
\* than Success or Skipped, and Success otherwise.
C15_StatusIsFoldVerdict ==
    (StatusCalled /\ AllDrone2Stages) => system_status = FoldVerdict

\* C15 amended: the same for every build that has at least one stage and
\* whose stages are all Gen2-shaped (a build without stages makes the
\* function panic); the verdict depends neither on the order of the stages
\* nor on the stages whose names do not match.
C15_StatusIsFoldVerdictWithStages ==
    (StatusCalled /\ AllDrone2Stages /\ StagesGiven # <<>>) => system_status = FoldVerdict

C15_Witness ==
    /\ system_status = "Failure"
    /\ Len(StagesGiven) = 3
    /\ StagesGiven[1].drone_stage.name = WalletPlatformApi
    /\ StagesGiven[1].drone_stage.status = "Failure"
    /\ StagesGiven[2].drone_stage.name = WalletPlatformApi
    /\ StagesGiven[2].drone_stage.status = "Success"
    /\ StagesGiven[3].drone_stage.name = WalletPlatform
    /\ StagesGiven[3].drone_stage.status = "Failure"

\* C16: the function panics whenever the stage list holds a Gen1-shaped
\* stage, at the first or at a later position, with a matching name or not.
C16_PanicsOnDrone1Stage ==
    (StatusCalled /\ \E i \in 1..Len(StagesGiven) : StagesGiven[i].variant = "Drone1Stage")
        => system_status = "panic"

C16_Witness ==
    /\ system_status = "panic"
    /\ Len(StagesGiven) = 2
    /\ StagesGiven[1].variant = "Drone2Stage"
    /\ StagesGiven[2].variant = "Drone1Stage"
    /\ StagesGiven[2].name = BuildPullRequest

(***************************************************************************)
(* Claims about the metrics engine, checked under SpecCsv.                 *)
(***************************************************************************)
Commits == DOMAIN git_sha_to_builds

Gen1Builds(k) == git_sha_to_builds[k][1]

Gen2Builds(k) == git_sha_to_builds[k][2]

BothSidesFilled(k) == Gen1Builds(k) # <<>> /\ Gen2Builds(k) # <<>>

\* the build of the collection with the least build number
LowestNumbered(drone_builds) ==
    CHOOSE d \in {drone_builds[i] : i \in 1..Len(drone_builds)} :
        \A i \in 1..Len(drone_builds) : d.build_info.number <= drone_builds[i].build_info.number

RowsOf(k) == SelectSeq(rows, LAMBDA row : row.git_sha = k)

\* C13: write_csv_aux emits at most one row per commit id and none for a
\* bucket with an empty Gen1 or Gen2 collection; every row carries the commit
\* id of a bucket and the build numbers of that bucket's two representatives.
C13_OneRowPerComparableCommit ==
    /\ \A i, j \in 1..Len(rows) : rows[i].git_sha = rows[j].git_sha => i = j
    /\ \A i \in 1..Len(rows) :
          /\ rows[i].git_sha \in Commits
          /\ BothSidesFilled(rows[i].git_sha)
          /\ rows[i].drone1_build_number
                = LowestNumbered(Gen1Builds(rows[i].git_sha)).build_info.number
          /\ rows[i].drone2_build_number
                = LowestNumbered(Gen2Builds(rows[i].git_sha)).build_info.number

\* both commits were visited: one has its row, the other, with no Gen2
\* build, has none
C13_Witness ==
    /\ pc = "done"
    /\ Commits = {"a", "b"}
    /\ Len(rows) = 1
    /\ rows[1].git_sha = "a"
    /\ rows[1].drone1_build_number = 1
    /\ rows[1].drone2_build_number = 11
    /\ Len(Gen1Builds("a")) = 2
    /\ Gen1Builds("b") # <<>>
    /\ Gen2Builds("b") = <<>>

\* the row the loop body would produce from the two lowest-numbered builds
\* alone
OutcomeOfLowestNumbered(k) ==
    BucketOutcome(k, <<LowestNumbered(Gen1Builds(k))>>, <<LowestNumbered(Gen2Builds(k))>>)

\* C14: for every bucket with both sides non-empty the representative of each
\* side is its build with the minimum build number, in whatever order the
\* details were appended, and what the loop body does for the bucket (skip,
\* abort, or the row with its statuses and metrics) is what it does for
\* these two builds alone.
C14_RepresentativeIsLowestNumbered ==
    /\ \A k \in Commits :
          BothSidesFilled(k) =>
              /\ representative(Gen1Builds(k)) = LowestNumbered(Gen1Builds(k))
              /\ representative(Gen2Builds(k)) = LowestNumbered(Gen2Builds(k))
              /\ OutcomeOf(k) = OutcomeOfLowestNumbered(k)
    /\ \A i \in 1..Len(rows) : rows[i] = OutcomeOfLowestNumbered(rows[i].git_sha).row

\* a row was taken from builds that were appended after a retry with a higher
\* number and different timings and statuses
C14_Witness ==
    /\ Len(rows) = 1
    /\ rows[1].git_sha = "a"
    /\ Len(Gen1Builds("a")) = 2
    /\ Len(Gen2Builds("a")) = 2
    /\ Gen1Builds("a")[1].build_info.number > Gen1Builds("a")[2].build_info.number
    /\ Gen2Builds("a")[1].build_info.number > Gen2Builds("a")[2].build_info.number
    /\ Gen1Builds("a")[1].stages = Complete(280)
    /\ Gen1Builds("a")[2].stages = Complete(250)
    /\ wallet_platform_system_status(Gen2Builds("a")[1]) = "Failure"
    /\ rows[1].delta_await_complete_to_unit_test_start = 150
    /\ rows[1].drone2_system_status = "Success"

\* the stage and the two steps write_csv_aux looks up in the Gen1
\* representative of the bucket, each as an Option
StageLookup(k) == get_stage(LowestNumbered(Gen1Builds(k)), BuildPullRequest)

UnitTestLookup(k) ==
    IF StageLookup(k) = None THEN None
    ELSE get_step(StageLookup(k)[1], RunWalletPlatformUnitTests)

AwaitLookup(k) ==
    IF StageLookup(k) = None THEN None
    ELSE get_step(StageLookup(k)[1], AwaitWalletPlatformTestStatus)

UnitStarted(k) == get_started_timestamp(UnitTestLookup(k)[1])[1]

UnitStopped(k) == get_stopped_timestamp(UnitTestLookup(k)[1])[1]

AwaitStopped(k) == get_stopped_timestamp(AwaitLookup(k)[1])[1]

Gen2Started(k) == LowestNumbered(Gen2Builds(k)).build_info.timestamps.started

\* C17: every emitted row has unit-test elapsed = unit-test stopped - started,
\* total elapsed = await stopped - started of the Gen2 representative build,
\* delta = await stopped - unit-test started, and the flag is true exactly
\* when delta < 180: true for 179, 0 and negative deltas, false for 180. For
\* unit-test start 100, stop 160, await stop 250 and Gen2 start 120 the row
\* has 60, 130, 150 and true.
C17_RowMetrics ==
    \A i \in 1..Len(rows) :
        LET row == rows[i]
            k == row.git_sha
        IN  /\ row.drone1_unit_test_elapsed_time = UnitStopped(k) - UnitStarted(k)
            /\ row.drone2_total_elapsed_time = AwaitStopped(k) - Gen2Started(k)
            /\ row.delta_await_complete_to_unit_test_start = AwaitStopped(k) - UnitStarted(k)
            /\ row.await_within_three_minutes_of_unit_test_start
                  = (row.delta_await_complete_to_unit_test_start < 180)
            /\ row.delta_await_complete_to_unit_test_start \in {179, 0}
                  => row.await_within_three_minutes_of_unit_test_start
            /\ row.delta_await_complete_to_unit_test_start < 0
                  => row.await_within_three_minutes_of_unit_test_start
            /\ row.delta_await_complete_to_unit_test_start = 180
                  => ~row.await_within_three_minutes_of_unit_test_start
            /\ (/\ UnitStarted(k) = 100
                /\ UnitStopped(k) = 160
                /\ AwaitStopped(k) = 250
                /\ Gen2Started(k) = 120)
                  => /\ row.drone1_unit_test_elapsed_time = 60
                     /\ row.drone2_total_elapsed_time = 130
                     /\ row.delta_await_complete_to_unit_test_start = 150
                     /\ row.await_within_three_minutes_of_unit_test_start

\* two rows were emitted: the example of the claim, and one whose delta is
\* exactly three minutes
C17_Witness ==
    /\ Len(rows) = 2
    /\ \E i \in 1..2 :
          /\ rows[i].drone1_unit_test_elapsed_time = 60
          /\ rows[i].drone2_total_elapsed_time = 130
          /\ rows[i].delta_await_complete_to_unit_test_start = 150
          /\ rows[i].await_within_three_minutes_of_unit_test_start
    /\ \E i \in 1..2 :
          /\ rows[i].delta_await_complete_to_unit_test_start = 180
          /\ ~rows[i].await_within_three_minutes_of_unit_test_start

\* the Gen1 representative of the bucket lacks the stage, or the stage lacks
\* one of the two steps, or the unit-test step was skipped
LookupFails(k) ==
    \/ StageLookup(k) = None
    \/ UnitTestLookup(k) = None
    \/ get_status(UnitTestLookup(k)[1]) = "Skipped"
    \/ AwaitLookup(k) = None

Visited(k) == k \in pending /\ k \notin pending'

C18_NoRowWhenLookupFails ==
    \A k \in Commits : BothSidesFilled(k) /\ LookupFails(k) => RowsOf(k) = <<>>

C18_VisitGoesOn ==
    \A k \in Commits :
        BothSidesFilled(k) /\ LookupFails(k) =>
            /\ k \in pending /\ pc = "write_csv" => ENABLED CsvContinue(k)
            /\ ~ENABLED CsvPanics(k)

C18_OthersGetTheirRow ==
    pc = "done" =>
        \A k \in Commits :
            BothSidesFilled(k) /\ OutcomeOfLowestNumbered(k).kind = "row" => Len(RowsOf(k)) = 1

StartedField(step) ==
    IF step.variant = "Drone1Step" THEN step.started ELSE step.drone_step.started

StoppedField(step) ==
    IF step.variant = "Drone1Step" THEN step.stopped ELSE step.drone_step.stopped

\* the lookups succeed, the unit-test step is not Skipped, and a timestamp
\* the row needs is absent
TimestampMissing(k) ==
    /\ BothSidesFilled(k)
    /\ ~LookupFails(k)
    /\ \/ StartedField(UnitTestLookup(k)[1]) = None
       \/ StoppedField(UnitTestLookup(k)[1]) = None
       \/ StoppedField(AwaitLookup(k)[1]) = None

C19_NoRowNoSkip ==
    \A k \in Commits :
        TimestampMissing(k) =>
            /\ RowsOf(k) = <<>>
            /\ k \in pending
            /\ pc # "done"
            /\ pc = "write_csv" => ENABLED CsvPanics(k)

\* C19: if the bucket passes the lookups and the unit-test step (not Skipped)
\* lacks its started or stopped timestamp, or the await step its stopped
\* timestamp, the run fails fatally at that commit: no row is emitted for it,
\* with a default or otherwise, and the bucket is not skipped.
C19_MissingTimestampIsFatal ==
    /\ []C19_NoRowNoSkip
    /\ [][\A k \in Commits :
             TimestampMissing(k) /\ pc' # pc
                 => pc' = "panicked" /\ rows' = rows /\ pending' = pending]_vars

\* the run panicked at a, whose unit-test step has no started timestamp and
\* whose Gen2 build has a status, after the row of b was emitted
C19_Witness ==
    /\ pc = "panicked"
    /\ TimestampMissing("a")
    /\ StartedField(UnitTestLookup("a")[1]) = None
    /\ wallet_platform_system_status(LowestNumbered(Gen2Builds("a"))) = "Success"
    /\ Len(rows) = 1
    /\ rows[1].git_sha = "b"

(***************************************************************************)
(* Claim about skip_pages_mut, checked under SpecPaginator.                *)
(***************************************************************************)
\* a call of skip_pages_mut(pages') was made in this step
SkipEffect ==
    pc' = "skip_pages_mut" =>
        /\ pages' > 0 =>
              /\ paginator'.cached = <<>>
              /\ paginator'.page = paginator.page + pages'
        /\ pages' = 0 =>
              /\ paginator'.cached = paginator.cached
              /\ paginator'.page = paginator.page
        /\ page_requests' = page_requests

\* next is called right after skip_pages_mut(pages) with pages > 0
NextAfterSkipFetchesCursor ==
    pc = "skip_pages_mut" /\ pages > 0 /\ pc' = "next" =>
        page_requests' = Append(page_requests, [drone |-> paginator.drone, page |-> paginator.page])

\* C20: skip_pages_mut(n) with n > 0 empties the buffer and adds exactly n to
\* the page cursor without a fetch, so the next call of next fetches page
\* (old cursor + n); with n = 0 buffer and cursor stay as they are.
C20_SkipPagesMut == [][SkipEffect /\ NextAfterSkipFetchesCursor]_vars

\* after the first entry of page 1 was yielded, one page was skipped with an
\* entry still buffered, and next then fetched page 3 and yielded its first
\* entry
C20_Witness ==
    /\ pc = "next"
    /\ pages = 1
    /\ page_requests = <<[drone |-> 1, page |-> 1], [drone |-> 1, page |-> 3]>>
    /\ Len(yielded[1]) = 2
    /\ yielded[1][1] = builds[1][1]
    /\ yielded[1][2] = builds[1][2 * PageSize + 1]

(***************************************************************************)
(* Claims about the phases of a run and about failed fetches, checked      *)
(* under Spec.                                                             *)
(***************************************************************************)
Retrieving == pc \in {"main", "loop1", "loop1_done", "loop2", "returned"}

Reporting == pc \in {"write_csv", "done"}

C11_NoGen2BeforeGen1Ended ==
    pc \in {"main", "loop1"} => PagesRequested(2) = <<>> /\ RequestsOf(2) = <<>>

C11_NoReportBeforeGen2Ended ==
    Retrieving => rows = <<>> /\ pending = {}

\* what a step may change in each phase
C11_PhaseStep ==
    /\ LoopEnded(1) =>
          /\ PagesRequested(1)' = PagesRequested(1)
          /\ RequestsOf(1)' = RequestsOf(1)
    /\ rows' # rows \/ pending' # pending => pc \in {"returned", "write_csv"}
    /\ Reporting \/ pc = "returned" =>
          /\ page_requests' = page_requests
          /\ build_info_requests' = build_info_requests
          /\ git_sha_to_builds' = git_sha_to_builds

\* C11: the run is strictly phased: no page or detail fetch goes to the Gen2
\* backend before the Gen1 retrieval loop has ended, no bucket is read and no
\* row emitted before the Gen2 retrieval loop has ended, and once reporting
\* has begun no fetch and no bucket append occurs.
C11_StrictlyPhased ==
    /\ [](C11_NoGen2BeforeGen1Ended /\ C11_NoReportBeforeGen2Ended)
    /\ [][C11_PhaseStep]_vars

\* a run through all phases: pages and details were fetched from both
\* backends, every bucket was visited and a row was emitted
C11_Witness ==
    /\ pc = "done"
    /\ rows # <<>>
    /\ \A b \in Clients : PagesRequested(b) # <<>> /\ RequestsOf(b) # <<>>

\* a request for a page was issued and the paginator did not take the page in
PageFetchFails == page_requests' # page_requests /\ paginator' = paginator

\* a request for a detail was issued and no detail was stored
DetailFetchFails ==
    /\ build_info_requests' # build_info_requests
    /\ \A b \in Clients : StoredCount(b)' = StoredCount(b)

\* the run was aborted during retrieval
AbortedAtFetch == pc = "panicked" /\ pending = {}

\* C12: a failed page fetch or detail fetch on either backend aborts the run
\* at that fetch with no retry: the failing step issues that one request and
\* panics, nothing happens after the panic, and no row is ever emitted, also
\* for commits whose buckets were already complete.
C12_FailedFetchAborts ==
    /\ [](AbortedAtFetch => rows = <<>>)
    /\ [][/\ PageFetchFails \/ DetailFetchFails =>
                /\ pc' = "panicked"
                /\ rows' = <<>>
                /\ pending' = {}
          /\ PageFetchFails =>
                /\ Len(page_requests') = Len(page_requests) + 1
                /\ build_info_requests' = build_info_requests
          /\ DetailFetchFails =>
                Len(build_info_requests') = Len(build_info_requests) + 1
          /\ pc # "panicked"]_vars

\* the detail fetch for a Gen2 build failed when a commit already had a
\* build on both sides from which a row would have been computed
C12_Witness ==
    /\ AbortedAtFetch
    /\ RequestsOf(2) # <<>>
    /\ StoredCount(2) < Len(RequestsOf(2))
    /\ \E k \in Commits : BothSidesFilled(k) /\ OutcomeOf(k).kind = "row"

(***************************************************************************)
(* Claim about the lookups by name, checked under SpecLookup.              *)
(***************************************************************************)
\* the name of a stage or step of either shape, as the backend sent it
NameField(entry) ==
    IF entry.variant \in {"Drone1Stage", "Drone1Step"} THEN entry.name
    ELSE IF entry.variant = "Drone2Stage" THEN entry.drone_stage.name
    ELSE entry.drone_step.name

\* the list the last lookup searched
Searched ==
    IF lookup.op = "get_stage" THEN drone_build_info.stages
    ELSE LET stage == drone_build_info.stages[lookup.stage]
         IN  IF stage.variant = "Drone1Stage" THEN stage.steps ELSE stage.drone_stage.steps

\* the positions of the searched list that hold the name looked up
Matches == {i \in 1..Len(Searched) : NameField(Searched[i]) = lookup.name}

\* C21: get_stage(name) returns the stage at the smallest index of the
\* build's stage list whose name equals name, get_step(name) the step at the
\* smallest index of the stage's step list whose name equals name, for
\* entries of either shape; each returns nothing exactly when no entry has
\* the name.
C21_LookupReturnsFirstMatch ==
    lookup.op \in {"get_stage", "get_step"} =>
        /\ lookup.found = None <=> Matches = {}
        /\ Matches # {} =>
              \E i \in Matches :
                  /\ \A j \in Matches : i <= j
                  /\ lookup.found = Some(Searched[i])

\* get_stage found the second of three stages, the first of the two that
\* carry the name, one of each shape
C21_Witness ==
    /\ lookup.op = "get_stage"
    /\ Matches = {2, 3}
    /\ Searched[2].variant # Searched[3].variant
    /\ lookup.found = Some(Searched[2])
    /\ lookup.found # Some(Searched[3])

(***************************************************************************)
(* Claim about termination of the retrieval, checked under                 *)
(* SpecNoFetchFailure.                                                     *)
(***************************************************************************)
\* this step yields a summary of backend b that is classified STOP
StopYielded(b) ==
    yielded'[b] # yielded[b] /\ Classify(Last(yielded'[b])) = "Break"

\* this step fetches a page of backend b that is empty
EmptyPageFetched(b) ==
    /\ page_requests' # page_requests
    /\ Last(page_requests').drone = b
    /\ get_bgms_build_list_with_page(b, Last(page_requests').page) = <<>>

C22_LoopStep ==
    \A b \in Clients :
        pc = LoopPc(b) =>
            /\ pc' \in {LoopPc(b), AfterLoopPc(b)}
            /\ pc' = AfterLoopPc(b) <=> StopYielded(b) \/ EmptyPageFetched(b)

\* C22: each retrieval loop ends at the first summary classified STOP or at
\* the first empty page the backend returns, whichever comes first; with
\* finitely many builds per backend, empty pages beyond them and no failing
\* fetch, the run always reaches the report phase, also when no summary is
\* classified STOP.
C22_RunReachesReport == [][C22_LoopStep]_vars /\ <>Reporting

\* the report phase was reached although both backends yielded summaries and
\* none of them was classified STOP
C22_Witness ==
    /\ pc = "write_csv"
    /\ \A b \in Clients :
          /\ yielded[b] # <<>>
          /\ \A i \in 1..Len(yielded[b]) : Classify(yielded[b][i]) # "Break"

(***************************************************************************)
(* Claim about builds without stages, checked under SpecCsv.               *)
(***************************************************************************)
Gen2Representative(k) == LowestNumbered(Gen2Builds(k))

\* the bucket reaches the computation of the system status
ReachesSystemStatus(k) == BothSidesFilled(k) /\ ~LookupFails(k)

\* the Gen2 representative has stages, all Gen2-shaped, none named
\* wallet-platform-*
NoWalletPlatformStage(k) ==
    LET stages == Gen2Representative(k).stages
    IN  /\ stages # <<>>
        /\ \A i \in 1..Len(stages) :
              /\ stages[i].variant = "Drone2Stage"
              /\ ~(/\ Len(stages[i].drone_stage.name) >= 3
                   /\ stages[i].drone_stage.name[1] = "wallet"
                   /\ stages[i].drone_stage.name[2] = "platform")

\* C23: wallet_platform_system_status fails fatally on a build with an empty
\* stage list instead of returning Success, while a Gen2 build with stages of
\* which none matches wallet-platform-* gets Success; so a comparable commit
\* whose Gen2 representative has no stages aborts the run and gets no row.
C23_NoStagesAbortsRun ==
    /\ \A k \in Commits :
          ReachesSystemStatus(k) /\ Gen2Representative(k).stages = <<>> =>
              /\ RowsOf(k) = <<>>
              /\ k \in pending
              /\ pc # "done"
              /\ pc = "write_csv" => ENABLED CsvPanics(k) /\ ~ENABLED CsvRow(k)
    /\ \A i \in 1..Len(rows) :
          NoWalletPlatformStage(rows[i].git_sha) => rows[i].drone2_system_status = "Success"

\* the run panicked at a, whose Gen1 representative has both steps and all
\* timestamps and whose Gen2 representative has no stages
C23_Witness ==
    /\ pc = "panicked"
    /\ Commits = {"a"}
    /\ ReachesSystemStatus("a")
    /\ ~TimestampMissing("a")
    /\ Gen2Representative("a").stages = <<>>
    /\ rows = <<>>

====
